---- MODULE Spec2Model ----
(***************************************************************************)
(* Model of the ConvFinQA evaluation program: the LLM client's retry loop  *)
(* (app/model_loader.py), the response extractor                           *)
(* (app/generate_responses.py) and the evaluator (app/evaluator.py).       *)
(*                                                                         *)
(* Three specifications share the module's variables; each one pins the    *)
(* variables of the other components to their idle values:                 *)
(*   SpecRetry    one invocation of OpenAiLlmResponse.get_response         *)
(*   SpecExtract  GetAllLlmResponses._extract_list_from_llm_response       *)
(*   SpecEval     ConversationsEvaluator.evaluate_all_conversations        *)
(* Spec is SpecRetry.                                                      *)
(***************************************************************************)
EXTENDS Integers, Sequences, FiniteSets, TLC

VARIABLES
    \* ---- OpenAiLlmResponse.get_response ----
    max_retries,    \* retry_config.max_retries
    base_delay,     \* retry_config.base_delay, in tenths of a second
    attempt,        \* the loop variable of "for attempt in range(...)"
    history,        \* the upstream calls and the sleeps made so far, in order
    last_exc,       \* the exception most recently raised inside the try statement
    gr_status,      \* "idle", "running", "returned" or "raised"
    gr_result,      \* what get_response returned or raised
    \* ---- _extract_list_from_llm_response ----
    llm_response,   \* the text given to the extractor, a sequence of lexemes
    ex_status,      \* "idle", "returned" or "raised"
    ex_result,      \* the list returned, or the exception that escaped
    \* ---- ConversationsEvaluator ----
    conv,           \* the conversation _evaluate_conversation was last given
    accuracy,       \* what _evaluate_conversation returned for conv
    accs,           \* the accuracies collected by evaluate_all_conversations
    avg_accuracy,   \* what evaluate_all_conversations returned
    report,         \* the accuracy written to eval.txt, <<>> while not written
    ev_status,      \* "idle", "evaluating", "returned" or "done"
    \* ---- main: GetAllLlmResponses, PromptGenerator, ConvFinQaDataParser ----
    args,           \* the arguments main was called with
    data_file,      \* the file at config.data_path
    llm,            \* generator.llm: its model name, "none" while not constructed
    parser_data,    \* generator.conv_parser.data, NoData while not loaded
    all_convs,      \* generator.all_convs, the ConvQA records in list order
    prompt_gen,     \* the strategy of generator.prompt_gen, "none" while not constructed
    prompt,         \* the prompt generate_prompt last returned
    processed,      \* how many conversations the loop of get_all_responses has left behind
    events,         \* the prompts built, requests, extractions and files written so far, in order
    responses_file, \* the content of convfinqa_responses.json, NoFile while not written
    reloaded,       \* what _load_json returned for the responses file, NoData before
    run_error,      \* the exception that ended the run, NoError while there is none
    run_status      \* the position of the run, "idle" outside a run

retry_vars == <<max_retries, base_delay, attempt, history, last_exc, gr_status, gr_result>>
extract_vars == <<llm_response, ex_status, ex_result>>
eval_vars == <<conv, accuracy, accs, avg_accuracy, report, ev_status>>
run_vars ==
    <<args, data_file, llm, parser_data, all_convs, prompt_gen, prompt, processed,
      events, responses_file, reloaded, run_error, run_status>>
vars == <<retry_vars, extract_vars, eval_vars, run_vars>>

(***************************************************************************)
(* Idle values of the components.                                          *)
(***************************************************************************)
NoResult == [kind |-> "none", call |-> 0, value |-> ""]

RetryIdle ==
    /\ max_retries = 0
    /\ base_delay = 0
    /\ attempt = 0
    /\ history = <<>>
    /\ last_exc = NoResult
    /\ gr_status = "idle"
    /\ gr_result = NoResult

ExtractIdle ==
    /\ llm_response = <<>>
    /\ ex_status = "idle"
    /\ ex_result = <<>>

NoConv == [answers |-> <<>>, formatted_llm_response |-> <<>>]

EvalIdle ==
    /\ conv = NoConv
    /\ accuracy = <<0, 1>>
    /\ accs = <<>>
    /\ avg_accuracy = <<0, 1>>
    /\ report = <<>>
    /\ ev_status = "idle"

NoArgs == [model_name |-> "", prompting_strategy |-> "", sample_size |-> 0,
           use_train_data |-> FALSE]
NoData == [train |-> <<>>, dev |-> <<>>]
NoDataFile == [exists |-> FALSE, json_suffix |-> FALSE, decodes |-> FALSE, data |-> NoData]
\* No responses file: a value of the shape of a file's content (a list of
\* objects, each a list of members) that no writing produces.
NoFile == << << <<"absent", [type |-> "none", text |-> <<>>]>> >> >>
NoPrompt == <<>>
NoError == [kind |-> "", raised_by |-> "", id |-> <<>>, cause |-> "", listed |-> <<>>]

RunIdle ==
    /\ args = NoArgs
    /\ data_file = NoDataFile
    /\ llm = "none"
    /\ parser_data = NoData
    /\ all_convs = <<>>
    /\ prompt_gen = "none"
    /\ prompt = NoPrompt
    /\ processed = 0
    /\ events = <<>>
    /\ responses_file = NoFile
    /\ reloaded = NoData
    /\ run_error = NoError
    /\ run_status = "idle"

(***************************************************************************)
(* 1. The LLM client: RetryConfig and OpenAiLlmResponse.get_response       *)
(***************************************************************************)

\* RetryConfig.max_retries: Field(ge=0, le=10).
MinRetries == 0
MaxRetries == 10

\* RetryConfig.base_delay: Field(ge=0.1, le=60.0, default=2.0), in tenths of
\* a second so that the delays are integers.
MinBaseDelay == 1
DefaultBaseDelay == 20
MaxBaseDelay == 600

RetryConfig ==
    [max_retries : MinRetries..MaxRetries,
     base_delay : {MinBaseDelay, DefaultBaseDelay, MaxBaseDelay}]

\* The exception classes the upstream call is modelled to raise.  The first
\* three are the classes imported from openai; IndexError is what
\* response.choices[0] raises on an empty choice list, KeyError stands for any
\* other exception.
TransientErrors == {"RateLimitError", "APITimeoutError", "APIError"}
OtherErrors == {"IndexError", "KeyError"}
UpstreamErrors == TransientErrors \cup OtherErrors

\* What message.content holds when the upstream call succeeds: a text, the
\* empty text, or None.
Contents == {"['a']", ""}

\* Faulty variants of retryable_errors: IndexError, or ValueError, is retried as well.
retryable_errors_and_IndexError ==
    {"RateLimitError", "APITimeoutError", "APIError", "IndexError"}
retryable_errors_and_ValueError ==
    {"RateLimitError", "APITimeoutError", "APIError", "ValueError"}

\* retryable_errors = (RateLimitError, APITimeoutError, APIError)
retryable_errors == {"RateLimitError", "APITimeoutError", "APIError"}

\* "except retryable_errors as e" catches e.
IsRetryable(kind) == kind \in retryable_errors

\* Faulty variants of calculate_delay: the exponent is off by one, or the delay is
\* linear in the attempt.
calculate_delay_next_power(base, a) == base * (2 ^ (a + 1))
calculate_delay_linear(base, a) == base * (a + 1)

\* _calculate_delay: base_delay * (2 ** attempt)
calculate_delay(base, a) == base * (2 ^ a)

\* range(self.retry_config.max_retries + 1)
attempt_range(mr) == 0 .. ((mr + 1) - 1)

\* Faulty variant of IsLastAttempt: the retries stop one attempt early.
IsLastAttempt_one_early(a, mr) == a >= mr - 1

\* Faulty variant of IsLastAttempt: the last attempt is looked for one past the
\* range of the loop.
IsLastAttempt_one_late(a, mr) == a = mr + 1

\* "if attempt == self.retry_config.max_retries"
IsLastAttempt(a, mr) == a = mr

\* An upstream call made with loop variable a, and what came of it: "content",
\* "none", "transient" (an exception of TransientErrors) or "other".
CallEvent(a, outcome) == [ev |-> "call", arg |-> a, outcome |-> outcome]
\* time.sleep(d)
SleepEvent(d) == [ev |-> "sleep", arg |-> d, outcome |-> "slept"]

Calls == SelectSeq(history, LAMBDA e : e.ev = "call")
Sleeps == SelectSeq(history, LAMBDA e : e.ev = "sleep")
NumCalls == Len(Calls)

OutcomeOf(kind) ==
    IF kind \in TransientErrors THEN "transient"
    ELSE IF kind = "ValueError" THEN "none" ELSE "other"

\* raise RuntimeError("Unexpected: retry loop completed without return or
\* exception"), the statement placed after the for loop; it follows no upstream
\* call of its own.
LoopCompleted == [kind |-> "RuntimeError", call |-> 0, value |-> ""]

\* The body of the try statement raised the exception exc during an upstream
\* call: the two except clauses, and the end of the loop after a sleep.
HandleException(exc) ==
    /\ last_exc' = exc
    /\ IF IsRetryable(exc.kind) /\ ~IsLastAttempt(attempt, max_retries)
       THEN \* delay = self._calculate_delay(attempt); time.sleep(delay)
            /\ history' = history \o
                  <<CallEvent(attempt, OutcomeOf(exc.kind)),
                    SleepEvent(calculate_delay(base_delay, attempt))>>
            /\ attempt' = attempt + 1
            /\ IF attempt + 1 \in attempt_range(max_retries)
               THEN UNCHANGED <<gr_status, gr_result>>
               ELSE \* the for loop is exhausted: the statement after it
                    /\ gr_status' = "raised"
                    /\ gr_result' = LoopCompleted
       ELSE \* "raise" in either except clause: the exception caught propagates
            /\ history' = Append(history, CallEvent(attempt, OutcomeOf(exc.kind)))
            /\ gr_status' = "raised"
            /\ gr_result' = exc
            /\ UNCHANGED attempt

\* The loop is at the top of an iteration.
InLoop == gr_status = "running" /\ attempt \in attempt_range(max_retries)

\* The upstream call returns a response whose content is c: return content.
CallReturnsContent(c) ==
    /\ InLoop
    /\ history' = Append(history, CallEvent(attempt, "content"))
    /\ gr_status' = "returned"
    /\ gr_result' = [kind |-> "content", call |-> NumCalls + 1, value |-> c]
    /\ UNCHANGED <<max_retries, base_delay, attempt, last_exc>>
    /\ UNCHANGED <<extract_vars, eval_vars, run_vars>>

\* The upstream call returns a response whose content is None: the ValueError
\* raised inside the try statement meets the except clauses.
CallReturnsNone ==
    /\ InLoop
    /\ HandleException([kind |-> "ValueError", call |-> NumCalls + 1, value |-> ""])
    /\ UNCHANGED <<max_retries, base_delay>>
    /\ UNCHANGED <<extract_vars, eval_vars, run_vars>>

\* The upstream call raises an exception of class kind.
CallRaises(kind) ==
    /\ InLoop
    /\ HandleException([kind |-> kind, call |-> NumCalls + 1, value |-> ""])
    /\ UNCHANGED <<max_retries, base_delay>>
    /\ UNCHANGED <<extract_vars, eval_vars, run_vars>>

InitRetry ==
    /\ \E rc \in RetryConfig :
          /\ max_retries = rc.max_retries
          /\ base_delay = rc.base_delay
    /\ attempt = 0
    /\ history = <<>>
    /\ last_exc = NoResult
    /\ gr_status = "running"
    /\ gr_result = NoResult
    /\ ExtractIdle
    /\ EvalIdle
    /\ RunIdle

NextRetry ==
    \/ \E c \in Contents : CallReturnsContent(c)
    \/ CallReturnsNone
    \/ \E kind \in UpstreamErrors : CallRaises(kind)

SpecRetry == InitRetry /\ [][NextRetry]_vars

(***************************************************************************)
(* Claims about get_response (checked under SpecRetry).                    *)
(***************************************************************************)
AllCallsTransient == \A i \in 1..NumCalls : Calls[i].outcome = "transient"
\* The place in history of upstream call number k (k = 1 is the first call).
CallPos(k) ==
    CHOOSE i \in 1..Len(history) :
        /\ history[i].ev = "call"
        /\ Cardinality({j \in 1..i : history[j].ev = "call"}) = k

\* C1: with max_retries = N in 0..10, when every upstream call raises a
\* transient error, get_response makes exactly N+1 upstream calls and then
\* raises the error of the last call; before that it is still running with at
\* most N calls made.
C1_ExhaustedAfterNPlus1Calls ==
    AllCallsTransient =>
        /\ gr_status # "returned"
        /\ gr_status = "running" => NumCalls <= max_retries
        /\ gr_status = "raised" =>
              /\ NumCalls = max_retries + 1
              /\ gr_result = last_exc
              /\ gr_result.call = max_retries + 1
              /\ gr_result.kind \in TransientErrors
C1_Witness ==
    /\ gr_status = "raised"
    /\ AllCallsTransient
    /\ max_retries = MaxRetries
    /\ NumCalls = MaxRetries + 1

\* C2: an upstream call with attempt index a that raises a transient error is
\* followed, when a < max_retries, by exactly one sleep of base_delay * 2^a
\* and then by attempt a+1 (if the run got that far); when a = max_retries
\* nothing follows it.  Sleeps occur nowhere else, so N+1 failing calls sleep
\* N times.
C2_SleepAfterTransientFailure ==
    /\ \A i \in 1..Len(history) :
          (history[i].ev = "call" /\ history[i].outcome = "transient") =>
              IF history[i].arg < max_retries
              THEN /\ i + 1 <= Len(history)
                   /\ history[i + 1] = SleepEvent(base_delay * (2 ^ history[i].arg))
                   /\ i + 2 <= Len(history) =>
                         /\ history[i + 2].ev = "call"
                         /\ history[i + 2].arg = history[i].arg + 1
              ELSE i = Len(history)
    /\ \A j \in 1..Len(history) :
          history[j].ev = "sleep" =>
              /\ j > 1
              /\ history[j - 1].ev = "call"
              /\ history[j - 1].outcome = "transient"
              /\ history[j - 1].arg < max_retries
    /\ (gr_status = "raised" /\ AllCallsTransient) => Len(Sleeps) = max_retries
C2_Witness ==
    /\ gr_status = "raised"
    /\ AllCallsTransient
    /\ max_retries = 3
    /\ base_delay = DefaultBaseDelay
    /\ Sleeps = <<SleepEvent(20), SleepEvent(40), SleepEvent(80)>>

\* C3 as stated: with every call raising a transient error, the delay slept
\* immediately before call k (k = 2..N+1) is base_delay * 2^(k-1).
C3_DelayBeforeCallK_AsStated ==
    AllCallsTransient =>
        \A k \in 2..NumCalls :
            history[CallPos(k) - 1] = SleepEvent(base_delay * (2 ^ (k - 1)))

\* C3 as amended: with every call raising a transient error, the delay slept
\* immediately before call k (k = 2..N+1) is base_delay * 2^(k-2): the first
\* retry waits base_delay itself.
C3_DelayBeforeCallK ==
    AllCallsTransient =>
        \A k \in 2..NumCalls :
            /\ CallPos(k) > 1
            /\ history[CallPos(k) - 1] = SleepEvent(base_delay * (2 ^ (k - 2)))
C3_Witness ==
    /\ gr_status = "raised"
    /\ AllCallsTransient
    /\ max_retries = 4
    /\ NumCalls = 5
    /\ history[CallPos(5) - 1] = SleepEvent(base_delay * 8)

\* C4: an upstream call that raises a non-transient error is the last event
\* of the invocation, on whatever attempt it occurs: no sleep and no call
\* follow it, and get_response raises that same error.
C4_NonTransientPropagatesAtOnce ==
    \A i \in 1..Len(history) :
        (history[i].ev = "call" /\ history[i].outcome = "other") =>
            /\ i = Len(history)
            /\ gr_status = "raised"
            /\ gr_result = last_exc
            /\ gr_result.kind \in OtherErrors
            /\ gr_result.call = NumCalls
C4_Witness ==
    /\ gr_status = "raised"
    /\ gr_result.kind = "IndexError"
    /\ gr_result.call = 3
    /\ max_retries = 5
    /\ Len(Sleeps) = 2

\* C5: an upstream call that succeeds with content None is the last event of
\* the invocation even when attempts remain: no sleep and no call follow it,
\* and get_response raises a ValueError.
C5_EmptyPayloadNotRetried ==
    \A i \in 1..Len(history) :
        (history[i].ev = "call" /\ history[i].outcome = "none") =>
            /\ i = Len(history)
            /\ gr_status = "raised"
            /\ gr_result.kind = "ValueError"
            /\ gr_result.call = NumCalls
C5_Witness ==
    /\ gr_status = "raised"
    /\ gr_result.kind = "ValueError"
    /\ attempt = 1
    /\ max_retries = 4
    /\ Len(Sleeps) = 1


(***************************************************************************)
(* 2. The response extractor:                                              *)
(*    GetAllLlmResponses._extract_list_from_llm_response                   *)
(*                                                                         *)
(* A response text is a sequence of lexemes, each standing for the         *)
(* characters it is written with: the two brackets, the string literal     *)
(* 'a', the digit 5, the comma, the letter x and the set display {{5}}.    *)
(* Lexemes that follow one another are adjacent characters of the text.    *)
(***************************************************************************)
MaxTextLen == 6

Lexemes == {"[", "]", "'a'", "5", ",", "x", "{{5}}"}
Brackets == {"[", "]"}
Texts == UNION {[1..n -> Lexemes] : n \in 0..MaxTextLen}

\* ---- re.findall(r"\[[^\[\]]+\]", llm_response) ----

\* The first place at or after i that holds a bracket (Len(text) + 1 if none).
RECURSIVE NextBracket(_, _)
NextBracket(text, i) ==
    IF i > Len(text) \/ text[i] \in Brackets THEN i ELSE NextBracket(text, i + 1)

\* The end of the match of \[[^\[\]]+\] that starts at i, or 0 when the
\* pattern does not match there: "[", one or more non-brackets, "]".
MatchEnd(text, i) ==
    IF text[i] # "["
    THEN 0
    ELSE LET j == NextBracket(text, i + 1)
         IN IF j <= Len(text) /\ text[j] = "]" /\ j > i + 1 THEN j ELSE 0

\* The matches found scanning from place i on, leftmost first, not overlapping.
RECURSIVE FindAllFrom(_, _)
FindAllFrom(text, i) ==
    IF i > Len(text)
    THEN <<>>
    ELSE LET j == MatchEnd(text, i)
         IN IF j > 0
            THEN <<SubSeq(text, i, j)>> \o FindAllFrom(text, j + 1)
            ELSE FindAllFrom(text, i + 1)

findall(text) == FindAllFrom(text, 1)

\* last = matches[-1]
LastMatch(matches) == matches[Len(matches)]

\* ---- ast.literal_eval(last) ----

\* The Python tokens of the characters between the brackets.  Adjacent
\* letters and digits form one token: a name when it starts with the letter,
\* a number when it is digits only, no token at all ("bad") when a letter
\* follows digits.
IsWordLexeme(l) == l \in {"5", "x"}

RECURSIVE WordEnd(_, _)
WordEnd(content, i) ==
    IF i < Len(content) /\ IsWordLexeme(content[i + 1])
    THEN WordEnd(content, i + 1)
    ELSE i

WordToken(content, i, j) ==
    IF content[i] = "x" THEN "name"
    ELSE IF \A k \in i..j : content[k] = "5" THEN "num"
    ELSE "bad"

RECURSIVE TokenizeFrom(_, _)
TokenizeFrom(content, i) ==
    IF i > Len(content)
    THEN <<>>
    ELSE IF IsWordLexeme(content[i])
    THEN LET j == WordEnd(content, i)
         IN <<WordToken(content, i, j)>> \o TokenizeFrom(content, j + 1)
    ELSE <<(CASE content[i] = "'a'" -> "str"
              [] content[i] = "," -> "comma"
              [] OTHER -> "setset")>> \o TokenizeFrom(content, i + 1)

Tokenize(content) == TokenizeFrom(content, 1)

\* The elements of a list display: the tokens between the commas.  One
\* trailing comma is allowed.
RECURSIVE SplitCommas(_)
SplitCommas(tokens) ==
    IF \A i \in 1..Len(tokens) : tokens[i] # "comma"
    THEN <<tokens>>
    ELSE LET c == CHOOSE i \in 1..Len(tokens) :
                     /\ tokens[i] = "comma"
                     /\ \A k \in 1..(i - 1) : tokens[k] # "comma"
         IN <<SubSeq(tokens, 1, c - 1)>> \o SplitCommas(SubSeq(tokens, c + 1, Len(tokens)))

Elements(tokens) ==
    LET parts == SplitCommas(tokens)
    IN IF Len(parts) >= 2 /\ parts[Len(parts)] = <<>>
       THEN SubSeq(parts, 1, Len(parts) - 1)
       ELSE parts

\* An element is an expression: adjacent string literals (which Python
\* concatenates), or a single number, name or set display.
IsExpression(elt) ==
    /\ Len(elt) >= 1
    /\ \/ \A i \in 1..Len(elt) : elt[i] = "str"
       \/ Len(elt) = 1 /\ elt[1] \in {"num", "name", "setset"}

RECURSIVE Repeat(_, _)
Repeat(str, n) == IF n = 0 THEN "" ELSE str \o Repeat(str, n - 1)

StrValue(repr) == [type |-> "str", repr |-> repr]
IntValue == [type |-> "int", repr |-> "5"]

\* _convert of one element: the value of a constant, ValueError for a name
\* ("malformed node or string"), TypeError for a set that holds a set
\* ("unhashable type: 'set'").
ConvertElement(elt) ==
    CASE elt[1] = "str" -> [exc |-> "", value |-> StrValue(Repeat("a", Len(elt)))]
      [] elt[1] = "num" -> [exc |-> "", value |-> IntValue]
      [] elt[1] = "name" -> [exc |-> "ValueError", value |-> IntValue]
      [] OTHER -> [exc |-> "TypeError", value |-> IntValue]

\* ast.literal_eval of a matched group "[" content "]": the exception raised
\* (exc, "" if none) and the list (value).  The text is parsed whole before
\* any element is converted; the elements are converted left to right.
literal_eval(group) ==
    LET tokens == Tokenize(SubSeq(group, 2, Len(group) - 1))
        elts == Elements(tokens)
        conv_elts == [i \in 1..Len(elts) |-> ConvertElement(elts[i])]
        failing == {i \in 1..Len(elts) : conv_elts[i].exc # ""}
    IN IF tokens = <<>>
       THEN [exc |-> "", value |-> <<>>]
       ELSE IF \E i \in 1..Len(elts) : ~IsExpression(elts[i])
       THEN [exc |-> "SyntaxError", value |-> <<>>]
       ELSE IF failing # {}
       THEN [exc |-> conv_elts[CHOOSE i \in failing : \A k \in failing : i <= k].exc,
             value |-> <<>>]
       ELSE [exc |-> "", value |-> [i \in 1..Len(elts) |-> conv_elts[i].value]]

\* all(isinstance(x, str) for x in result); the value parsed from a group in
\* brackets is always a list.
AllStrings(result) == \A i \in 1..Len(result) : result[i].type = "str"

\* except (SyntaxError, ValueError)
caught_errors == {"SyntaxError", "ValueError"}

\* _extract_list_from_llm_response: what it returns (status "returned", the
\* list in value) or the exception that leaves it (status "raised", exc).
Returned(list) == [status |-> "returned", exc |-> "", value |-> list]
Raised(exc) == [status |-> "raised", exc |-> exc, value |-> <<>>]

extract_list_from_llm_response(text) ==
    IF Len(text) = 0
    THEN Returned(<<>>)
    ELSE LET matches == findall(text)
         IN IF Len(matches) = 0
            THEN Returned(<<>>)
            ELSE LET parsed == literal_eval(LastMatch(matches))
                 IN IF parsed.exc = ""
                    THEN IF AllStrings(parsed.value)
                         THEN Returned(parsed.value)
                         ELSE Returned(<<>>)
                    ELSE IF parsed.exc \in caught_errors
                    THEN Returned(<<>>)
                    ELSE Raised(parsed.exc)

\* The extractor is applied to the response text.
ExtractList ==
    /\ ex_status = "idle"
    /\ LET r == extract_list_from_llm_response(llm_response)
       IN /\ ex_status' = r.status
          /\ ex_result' = IF r.status = "returned" THEN r.value ELSE r.exc
    /\ UNCHANGED llm_response
    /\ UNCHANGED <<retry_vars, eval_vars, run_vars>>

InitExtract ==
    /\ llm_response \in Texts
    /\ ex_status = "idle"
    /\ ex_result = <<>>
    /\ RetryIdle
    /\ EvalIdle
    /\ RunIdle

NextExtract == ExtractList

SpecExtract == InitExtract /\ [][NextExtract]_vars

(***************************************************************************)
(* Claims about the extractor (checked under SpecExtract).                 *)
(***************************************************************************)
\* The single-level bracket groups of a text, stated by their places: "[" at
\* i, "]" at j, at least one character and no bracket between them.
Groups(text) ==
    {g \in (1..Len(text)) \X (1..Len(text)) :
        /\ text[g[1]] = "["
        /\ text[g[2]] = "]"
        /\ g[2] > g[1] + 1
        /\ \A k \in (g[1] + 1)..(g[2] - 1) : text[k] \notin Brackets}
GroupText(text, g) == SubSeq(text, g[1], g[2])
LastGroup(text) == CHOOSE g \in Groups(text) : \A h \in Groups(text) : h[1] <= g[1]
IsStringListLiteral(group) ==
    literal_eval(group).exc = "" /\ AllStrings(literal_eval(group).value)
\* What the last group alone decides: its list, or the empty list.
LastGroupResult(text) ==
    IF IsStringListLiteral(GroupText(text, LastGroup(text)))
    THEN literal_eval(GroupText(text, LastGroup(text))).value
    ELSE <<>>
Extracted == ex_status # "idle"

\* C6: for a text with several single-level bracket groups the extractor
\* returns the last group's list when that group is a valid string-list
\* literal and the empty list when it is not, whatever the earlier groups are.
C6_LastGroupDecides ==
    (Extracted /\ Cardinality(Groups(llm_response)) >= 2) =>
        /\ ex_status = "returned"
        /\ ex_result = LastGroupResult(llm_response)

\* Support for C6: whenever the extractor returns, the last group decides.
C6_LastGroupDecidesWhenReturned ==
    (ex_status = "returned" /\ Cardinality(Groups(llm_response)) >= 2) =>
        ex_result = LastGroupResult(llm_response)
C6_EarlierValidLastInvalid ==
    /\ ex_status = "returned"
    /\ llm_response = <<"[", "'a'", "]", "[", "5", "]">>
    /\ ex_result = <<>>

\* C7: the extractor never raises and always returns a list of strings: the
\* empty list for the empty text, for a text with no bracket group, for a
\* last group that does not parse, and for a parsed value that is not a list
\* of strings; the list itself when the only group is a valid string-list
\* literal.
C7_NeverRaisesReturnsStrings ==
    Extracted =>
        /\ ex_status = "returned"
        /\ \A i \in 1..Len(ex_result) : ex_result[i].type = "str"
        /\ llm_response = <<>> => ex_result = <<>>
        /\ Groups(llm_response) = {} => ex_result = <<>>
        /\ Groups(llm_response) # {} =>
              LET parsed == literal_eval(GroupText(llm_response, LastGroup(llm_response)))
              IN /\ parsed.exc # "" => ex_result = <<>>
                 /\ (parsed.exc = "" /\ ~AllStrings(parsed.value)) => ex_result = <<>>
                 /\ (parsed.exc = "" /\ AllStrings(parsed.value)
                        /\ Cardinality(Groups(llm_response)) = 1) =>
                       ex_result = parsed.value

\* Support for C7: every exception that leaves the extractor is a TypeError
\* of literal_eval, and whenever the extractor returns, C7's cases hold.
C7_OnlyTypeErrorEscapes ==
    ex_status = "raised" =>
        /\ ex_result = "TypeError"
        /\ literal_eval(GroupText(llm_response, LastGroup(llm_response))).exc = "TypeError"
C7_HoldsWhenReturned ==
    ex_status = "returned" =>
        /\ \A i \in 1..Len(ex_result) : ex_result[i].type = "str"
        /\ Groups(llm_response) = {} => ex_result = <<>>
        /\ Groups(llm_response) # {} => ex_result = LastGroupResult(llm_response)

(***************************************************************************)
(* 3. The evaluator: ConversationsEvaluator                                *)
(*                                                                         *)
(* A string is a sequence of characters.  A float is modelled by the exact *)
(* fraction <<numerator, denominator>> in lowest terms, so that two equal  *)
(* values are the same pair; the rounding of the float division is not     *)
(* modelled.  The conversations of all_convs are drawn one at a time as    *)
(* the list comprehension of evaluate_all_conversations reaches them.      *)
(***************************************************************************)
MaxAnswers == 2
MaxPreds == 2
MaxConvs == 2

Whitespace == {" ", "\n"}

\* The answers and predictions of the model: "10", " 10", "10\n" and "W".
Strings == {<<"1", "0">>, <<" ", "1", "0">>, <<"1", "0", "\n">>, <<"W">>}

SeqsUpTo(S, n) == UNION {[1..k -> S] : k \in 0..n}

\* The ConvQA records given to the evaluator: answers and
\* formatted_llm_response (id, doc and questions are not read by it).
Conversations ==
    [answers : SeqsUpTo(Strings, MaxAnswers),
     formatted_llm_response : SeqsUpTo(Strings, MaxPreds)]

\* Fractions.
RECURSIVE GCD(_, _)
GCD(a, b) == IF b = 0 THEN a ELSE GCD(b, a % b)
Frac(n, d) == LET g == GCD(n, d) IN <<n \div g, d \div g>>
FracAdd(x, y) == Frac(x[1] * y[2] + y[1] * x[2], x[2] * y[2])
FracDivInt(x, n) == Frac(x[1], x[2] * n)
Zero == Frac(0, 1)

\* Faulty variant of strip: only the leading whitespace is removed (lstrip).
RECURSIVE strip_leading_only(_)
strip_leading_only(str) ==
    IF Len(str) > 0 /\ Head(str) \in Whitespace
    THEN strip_leading_only(Tail(str))
    ELSE str

\* str.strip(): leading and trailing whitespace removed.
RECURSIVE strip(_)
strip(str) ==
    IF Len(str) > 0 /\ Head(str) \in Whitespace
    THEN strip(Tail(str))
    ELSE IF Len(str) > 0 /\ str[Len(str)] \in Whitespace
    THEN strip(SubSeq(str, 1, Len(str) - 1))
    ELSE str

NoneValue == <<"None">>

\* [x.strip() for x in list if x is not None]
StripAll(list) ==
    LET kept == SelectSeq(list, LAMBDA x : x # NoneValue)
    IN [i \in 1..Len(kept) |-> strip(kept[i])]

\* zip(true, preds): the pairs up to the end of the shorter list.
zip(true, preds) ==
    LET n == IF Len(true) <= Len(preds) THEN Len(true) ELSE Len(preds)
    IN [i \in 1..n |-> <<true[i], preds[i]>>]

\* Faulty variant of count_correct: a prediction counts when it equals any expected
\* answer, whatever its position.
count_correct_any_position(true, preds) ==
    Cardinality({i \in 1..Len(preds) : \E k \in 1..Len(true) : true[k] = preds[i]})

\* for t, p in zip(true, preds): if t == p: correct += 1
count_correct(true, preds) ==
    LET pairs == zip(true, preds)
    IN Cardinality({i \in 1..Len(pairs) : pairs[i][1] = pairs[i][2]})

\* Faulty variant of accuracy_percent: the division by total is left out.
accuracy_percent_no_division(correct, total) == Frac(correct * 100, 1)

\* accuracy = (correct / total) * 100
accuracy_percent(correct, total) == Frac(correct * 100, total)

\* _evaluate_conversation
evaluate_conversation(c) ==
    LET preds == StripAll(c.formatted_llm_response)
        true == StripAll(c.answers)
        total == Len(true)
    IN IF Len(preds) = 0 \/ total = 0
       THEN Zero
       ELSE accuracy_percent(count_correct(true, preds), total)

RECURSIVE FracSum(_)
FracSum(fs) == IF Len(fs) = 0 THEN Zero ELSE FracAdd(Head(fs), FracSum(Tail(fs)))

\* Faulty variant of average: the division by the number of conversations is
\* left out.
average_sum_only(fs) == FracSum(fs)

\* avg_accuracy = sum(accs) / len(accs) if accs else 0.0
average(fs) == IF Len(fs) > 0 THEN FracDivInt(FracSum(fs), Len(fs)) ELSE Zero

\* The list comprehension reaches the next conversation c of all_convs and
\* _evaluate_conversation returns its accuracy.
EvaluateConversation ==
    /\ ev_status = "evaluating"
    /\ Len(accs) < MaxConvs
    /\ \E c \in Conversations :
          /\ conv' = c
          /\ accuracy' = evaluate_conversation(c)
    /\ ev_status' = "returned"
    /\ UNCHANGED <<accs, avg_accuracy, report>>
    /\ UNCHANGED <<retry_vars, extract_vars, run_vars>>

\* The accuracy returned becomes the next element of accs.
CollectAccuracy ==
    /\ ev_status = "returned"
    /\ accs' = Append(accs, accuracy)
    /\ conv' = NoConv
    /\ accuracy' = Zero
    /\ ev_status' = "evaluating"
    /\ UNCHANGED <<avg_accuracy, report>>
    /\ UNCHANGED <<retry_vars, extract_vars, run_vars>>

\* all_convs is exhausted: the average is computed, _save_evaluation writes
\* the report and evaluate_all_conversations returns.
FinishEvaluation ==
    /\ ev_status = "evaluating"
    /\ avg_accuracy' = average(accs)
    /\ report' = <<average(accs)>>
    /\ ev_status' = "done"
    /\ UNCHANGED <<conv, accuracy, accs>>
    /\ UNCHANGED <<retry_vars, extract_vars, run_vars>>

InitEval ==
    /\ conv = NoConv
    /\ accuracy = Zero
    /\ accs = <<>>
    /\ avg_accuracy = Zero
    /\ report = <<>>
    /\ ev_status = "evaluating"
    /\ RetryIdle
    /\ ExtractIdle
    /\ RunIdle

NextEval ==
    \/ EvaluateConversation
    \/ CollectAccuracy
    \/ FinishEvaluation

SpecEval == InitEval /\ [][NextEval]_vars

(***************************************************************************)
(* Claims about the evaluator (checked under SpecEval).                    *)
(***************************************************************************)
\* A string without its leading and trailing whitespace, stated by places.
Trimmed(str) ==
    LET solid == {i \in 1..Len(str) : str[i] \notin Whitespace}
    IN IF solid = {}
       THEN <<>>
       ELSE SubSeq(str, CHOOSE i \in solid : \A k \in solid : i <= k,
                        CHOOSE i \in solid : \A k \in solid : k <= i)
Predicted == conv.formatted_llm_response
Expected == conv.answers
ShorterLen == IF Len(Predicted) <= Len(Expected) THEN Len(Predicted) ELSE Len(Expected)
MatchAt(i) == Trimmed(Predicted[i]) = Trimmed(Expected[i])
\* m: the number of places below both lengths where the two lists agree.
Matches == Cardinality({i \in 1..ShorterLen : MatchAt(i)})
AccuracyReturned == ev_status = "returned"

\* C8: _evaluate_conversation returns 100 * m / len(expected), m being the
\* number of places i below both lengths where the trimmed prediction equals
\* the trimmed expected answer, and 0 when either list is empty.
C8_AccuracyIsMatchRatio ==
    AccuracyReturned =>
        IF Len(Predicted) = 0 \/ Len(Expected) = 0
        THEN accuracy = <<0, 1>>
        ELSE accuracy[1] * Len(Expected) = 100 * Matches * accuracy[2]
C8_Witness ==
    /\ AccuracyReturned
    /\ Expected = <<<<"1", "0">>, <<"1", "0", "\n">>>>
    /\ Predicted = <<<<" ", "1", "0">>, <<"W">>>>
    /\ accuracy = <<50, 1>>

\* C9 as stated: the accuracy of a conversation is 100 if and only if the
\* prediction list and the expected list have equal length and every
\* prediction equals the expected answer at its place after trim.
C9_HundredIffAllMatch_AsStated ==
    (AccuracyReturned /\ Len(Expected) > 0) =>
        (accuracy = <<100, 1>> <=>
            /\ Len(Predicted) = Len(Expected)
            /\ \A i \in 1..Len(Expected) : MatchAt(i))

\* C9 as amended: the accuracy of a conversation (its expected list is not
\* empty) is 100 if and only if the prediction list is at least as long as
\* the expected list and every expected answer equals the prediction at its
\* place after trim; predictions beyond the expected list are ignored.
C9_HundredIffAllExpectedMatched ==
    (AccuracyReturned /\ Len(Expected) > 0) =>
        (accuracy = <<100, 1>> <=>
            /\ Len(Predicted) >= Len(Expected)
            /\ \A i \in 1..Len(Expected) : MatchAt(i))
C9_Witness ==
    /\ AccuracyReturned
    /\ Expected = <<<<"1", "0">>>>
    /\ Predicted = <<<<"1", "0">>, <<"W">>>>
    /\ accuracy = <<100, 1>>

\* C10: the accuracy of every conversation, whatever the lengths of its two
\* lists, lies in [0, 100], and so does the overall score returned by
\* evaluate_all_conversations.
InRange(x) == x[2] > 0 /\ 0 <= x[1] /\ x[1] <= 100 * x[2]
C10_AccuracyInRange ==
    /\ AccuracyReturned => InRange(accuracy)
    /\ \A i \in 1..Len(accs) : InRange(accs[i])
    /\ ev_status = "done" => InRange(avg_accuracy)
C10_Witness ==
    /\ ev_status = "done"
    /\ accs = <<<<100, 1>>, <<50, 1>>>>
    /\ avg_accuracy = <<75, 1>>

\* The product of the denominators of the accuracies collected so far.
RECURSIVE DenProduct(_)
DenProduct(n) == IF n = 0 THEN 1 ELSE accs[n][2] * DenProduct(n - 1)

\* The sum of the first n accuracies, as a numerator over DenProduct(Len(accs)).
RECURSIVE ScaledSum(_)
ScaledSum(n) ==
    IF n = 0
    THEN 0
    ELSE accs[n][1] * (DenProduct(Len(accs)) \div accs[n][2]) + ScaledSum(n - 1)

\* C11: when evaluate_all_conversations has returned, the value returned is
\* the arithmetic mean of the per-conversation accuracies, each conversation
\* counting once whatever its number of questions (the mean times the number
\* of conversations is the sum of the accuracies), it is 0.0 when there was
\* no conversation, and in both cases the report holding that value has been
\* written.
C11_AverageIsMeanAndReportWritten ==
    ev_status = "done" =>
        /\ Len(accs) = 0 => avg_accuracy = <<0, 1>>
        /\ Len(accs) > 0 =>
              avg_accuracy[1] * Len(accs) * DenProduct(Len(accs))
                  = avg_accuracy[2] * ScaledSum(Len(accs))
        /\ avg_accuracy[2] > 0
        /\ report = <<avg_accuracy>>

\* Two conversations scored 50 and 100 average to 75 and the report holds 75.
C11_Witness ==
    /\ ev_status = "done"
    /\ accs = << <<50, 1>>, <<100, 1>> >>
    /\ avg_accuracy = <<75, 1>>
    /\ report = << <<75, 1>> >>

(***************************************************************************)
(* 4. The run of main (src/app/main.py): GetAllLlmResponses is constructed *)
(* (model client, data parser, conversations, prompt generator, sample),   *)
(* get_all_responses processes the conversations in list order and saves   *)
(* them, and ConversationsEvaluator scores them.  Python strings of the    *)
(* run are sequences of characters; a response text is a sequence of       *)
(* lexemes as in section 2.  get_response (section 1) appears here by its  *)
(* outcomes: a text returned or an exception raised.                       *)
(***************************************************************************)
\* The largest number of entries of the train split of a dataset.
MaxEntries == 2

Range(seq) == {seq[i] : i \in 1..Len(seq)}
Least(S) == CHOOSE i \in S : \A k \in S : i <= k

\* class ModelName(Enum): the values, in definition order.
ModelName == <<"gpt-4.1", "gpt-4o", "gpt-4o-mini", "o4-mini">>

\* PromptGenerator._STRATEGY_DICT: the keys, in insertion order.
STRATEGY_DICT == <<"basic", "chain_of_thought", "few_shot">>

\* The arguments main is called with: a model name and a strategy, valid or
\* not, the sample size (an int) and the split.
MainArgs ==
    [model_name : {"gpt-4.1", "gpt-5"},
     prompting_strategy : {"basic", "chain_of_thought", "few_shot", "tree_of_thought"},
     sample_size : 0..MaxEntries,
     use_train_data : BOOLEAN]

\* The entries of a dataset: one question and one answer, two of each, two
\* questions with one answer, or none of either.
RawKinds == {"one", "two", "short", "none"}
RawQuestions(kind) ==
    CASE kind = "one" -> << <<"Q", "1">> >>
      [] kind \in {"two", "short"} -> << <<"Q", "1">>, <<"Q", "2">> >>
      [] OTHER -> <<>>
RawAnswers(kind) ==
    CASE kind \in {"one", "short"} -> << <<"a">> >>
      [] kind = "two" -> << <<"a">>, <<"b">> >>
      [] OTHER -> <<>>
Digits == <<"1", "2", "3", "4", "5", "6", "7", "8", "9">>
\* The doc of an entry is a string, or (for the entries with two questions
\* and two answers) the dict {'t': 'D'}.
RawDoc(kind) ==
    IF kind = "two"
    THEN [type |-> "dict", v |-> [t |-> <<"D">>]]
    ELSE [type |-> "str", v |-> <<"D">>]
RawEntry(i, kind) ==
    [id |-> <<"c", Digits[i]>>,
     doc |-> RawDoc(kind),
     dialogue |-> [conv_questions |-> RawQuestions(kind),
                   conv_answers |-> RawAnswers(kind)]]
Splits(n) ==
    UNION {{[i \in 1..k |-> RawEntry(i, kinds[i])] : kinds \in [1..k -> RawKinds]} :
              k \in 0..n}
\* The train split holds up to MaxEntries entries with the ids c1, c2, ...,
\* the dev split up to one, with the id d1.
Datasets ==
    {[train |-> t, dev |-> [i \in DOMAIN d |-> [d[i] EXCEPT !.id = <<"d", Digits[i]>>]]] :
        t \in Splits(MaxEntries), d \in Splits(1)}

\* The file at the data path: missing, without the .json suffix, with content
\* that is not JSON, or a dataset.
BadDataFiles ==
    {[exists |-> FALSE, json_suffix |-> TRUE, decodes |-> FALSE, data |-> NoData],
     [exists |-> TRUE, json_suffix |-> FALSE, decodes |-> FALSE, data |-> NoData],
     [exists |-> TRUE, json_suffix |-> FALSE, decodes |-> TRUE,
      data |-> [train |-> <<RawEntry(1, "one")>>, dev |-> <<RawEntry(1, "one")>>]],
     [exists |-> TRUE, json_suffix |-> TRUE, decodes |-> FALSE, data |-> NoData]}
GoodDataFiles ==
    {[exists |-> TRUE, json_suffix |-> TRUE, decodes |-> TRUE, data |-> d] : d \in Datasets}
DataFiles == BadDataFiles \cup GoodDataFiles

\* What get_response hands to _get_conv_response: one of these texts, or one
\* of these exceptions (APIError after the last attempt, ValueError for an
\* empty payload).
ResponseTexts == {<<"[", "'a'", "]">>, <<"x">>, <<"[", "{{5}}", "]">>}
GetResponseErrors == {"APIError", "ValueError"}

\* Faulty variant of IsModelName: every name is accepted.
IsModelName_any(name) == TRUE

\* valid_model = ModelName(model_name)
IsModelName(name) == name \in Range(ModelName)

\* self._STRATEGY_DICT[strategy]
IsStrategy(name) == name \in Range(STRATEGY_DICT)

\* Faulty variant of load_json: the suffix of the path is not looked at.
load_json_any_suffix(file) ==
    IF ~file.exists
    THEN [exc |-> "FileNotFoundError", value |-> NoData]
    ELSE IF ~file.decodes
    THEN [exc |-> "ValueError", value |-> NoData]
    ELSE [exc |-> "", value |-> file.data]

\* _load_json: the exception raised (exc, "" if none) and the data returned.
load_json(file) ==
    IF ~file.exists
    THEN [exc |-> "FileNotFoundError", value |-> NoData]
    ELSE IF ~file.json_suffix
    THEN [exc |-> "ValueError", value |-> NoData]
    ELSE IF ~file.decodes
    THEN [exc |-> "ValueError", value |-> NoData]
    ELSE [exc |-> "", value |-> file.data]

NoConvQA ==
    [id |-> <<>>, doc |-> <<>>, questions |-> <<>>, answers |-> <<>>,
     llm_response |-> NoneValue, formatted_llm_response |-> <<>>]

\* Faulty variant of ConvQA: model_post_init does not compare the lengths.
ConvQA_lengths_not_compared(id, doc, questions, answers) ==
    IF Len(id) < 1 \/ Len(doc) < 1 \/ Len(questions) < 1 \/ Len(answers) < 1
    THEN [exc |-> "ValidationError", value |-> NoConvQA]
    ELSE [exc |-> "",
          value |-> [id |-> id, doc |-> doc, questions |-> questions, answers |-> answers,
                     llm_response |-> NoneValue, formatted_llm_response |-> <<>>]]

\* ConvQA(id=..., doc=..., questions=..., answers=...): the field constraints
\* (min_length=1), then model_post_init; llm_response and
\* formatted_llm_response take their defaults.
ConvQA(id, doc, questions, answers) ==
    IF Len(id) < 1 \/ Len(doc) < 1 \/ Len(questions) < 1 \/ Len(answers) < 1
    THEN [exc |-> "ValidationError", value |-> NoConvQA]
    ELSE IF Len(questions) # Len(answers)
    THEN [exc |-> "ValueError", value |-> NoConvQA]
    ELSE [exc |-> "",
          value |-> [id |-> id, doc |-> doc, questions |-> questions, answers |-> answers,
                     llm_response |-> NoneValue, formatted_llm_response |-> <<>>]]

\* str(doc) of the dict {'t': value}: "{'t': '" value "'}".
str_of_dict(doc) == <<"{", "'", "t", "'", ":", " ", "'">> \o doc.t \o <<"'", "}">>

\* _get_doc_from_idx: str(doc) if the doc is a dict, the doc itself otherwise.
get_doc_from_idx(data, idx, data_type) ==
    LET doc == data[data_type][idx].doc
    IN IF doc.type = "dict" THEN str_of_dict(doc.v) ELSE doc.v

\* _get_doc_and_q_and_a_pair(idx, data_type)
get_doc_and_q_and_a_pair(data, idx, data_type) ==
    LET entry == data[data_type][idx]
    IN ConvQA(entry.id, get_doc_from_idx(data, idx, data_type),
              entry.dialogue.conv_questions, entry.dialogue.conv_answers)

\* Faulty variant of data_type_of: the train split whatever the argument.
data_type_always_train(load_train_data) == "train"

\* data_type = "train" if load_train_data else "dev"
data_type_of(load_train_data) == IF load_train_data THEN "train" ELSE "dev"

\* Faulty variant of get_all_docs_and_q_and_a_pairs: an entry that fails
\* validation is left out and the loop goes on.
get_all_docs_skipping_invalid(data, load_train_data) ==
    LET data_type == data_type_of(load_train_data)
        n == Len(data[data_type])
        built == [idx \in 1..n |-> get_doc_and_q_and_a_pair(data, idx, data_type)]
        kept == SelectSeq(built, LAMBDA b : b.exc = "")
    IN [exc |-> "", at |-> 0, value |-> [i \in 1..Len(kept) |-> kept[i].value]]

\* get_all_docs_and_q_and_a_pairs: the loop over the entries of the selected
\* split ends at the first entry whose ConvQA raises (exc, at); otherwise the
\* list of all records is returned (value).
get_all_docs_and_q_and_a_pairs(data, load_train_data) ==
    LET data_type == data_type_of(load_train_data)
        n == Len(data[data_type])
        built == [idx \in 1..n |-> get_doc_and_q_and_a_pair(data, idx, data_type)]
        failing == {idx \in 1..n : built[idx].exc # ""}
    IN IF failing # {}
       THEN [exc |-> built[Least(failing)].exc, at |-> Least(failing), value |-> <<>>]
       ELSE [exc |-> "", at |-> 0, value |-> [idx \in 1..n |-> built[idx].value]]

\* random.sample(population, k): every choice of k different places, in
\* every order; ValueError when k exceeds the population.
sample(population, k) ==
    LET n == Len(population)
        places == {f \in [1..k -> 1..n] : \A i, j \in 1..k : i # j => f[i] # f[j]}
    IN {[i \in 1..k |-> population[f[i]]] : f \in places}

\* str.join: the elements of list with sep between neighbours.
RECURSIVE join(_, _)
join(sep, list) ==
    IF Len(list) = 0
    THEN <<>>
    ELSE IF Len(list) = 1
    THEN list[1]
    ELSE list[1] \o sep \o join(sep, Tail(list))

\* Faulty variant of formatted_questions: the questions are joined by a space.
formatted_questions_space_joined(c) == join(<<" ">>, c.questions)

\* ConvQA.formatted_questions: " {next_question} ".join(self.questions)
formatted_questions(c) == join(<<" {next_question} ">>, c.questions)

\* The three templates.  A prompt is a sequence of characters in which each
\* fixed passage of a template is one element.
BasicPromptStrategy(doc, questions) ==
    <<"You are a financial question answering assistant. [...] as shown.\n\n",
      "Document:\n">> \o doc \o <<"\n\n", "Questions:\n">> \o questions
        \o <<"\n\n", "Answers (as a Python list of strings):">>

ChainOfThoughtPromptStrategy(doc, questions) ==
    <<"You are a financial assistant trained [...] as a Python list of strings.\n\n",
      "Example format:\n", "Step-by-step reasoning", ": ...\n",
      "Final answers: [...]\n\n",
      "Document:\n">> \o doc \o <<"\n\n", "Questions:\n">> \o questions
        \o <<"\n\n", "Your reasoning and final answers:">>

FewShotPromptStrategy(doc, questions) ==
    <<"You are a financial assistant. [...] separated by the token {next_question}.\n\n",
      "Here are three example Q&A pairs: [...]\n\n",
      "Now answer the following using the same format.\n\n",
      "Document:\n">> \o doc \o <<"\n\n", "Questions:\n">> \o questions
        \o <<"\n\n", "Answers:">>

\* PromptGenerator.generate_prompt with the strategy chosen at construction.
generate_prompt(strategy, conversation) ==
    LET doc == conversation.doc
        questions == formatted_questions(conversation)
    IN CASE strategy = "basic" -> BasicPromptStrategy(doc, questions)
         [] strategy = "chain_of_thought" -> ChainOfThoughtPromptStrategy(doc, questions)
         [] OTHER -> FewShotPromptStrategy(doc, questions)

\* A str of the extractor's result (section 2 keeps its repr, a run of a's)
\* as the characters of the string.
Characters(v) == [i \in 1..Len(v.repr) |-> "a"]
CharacterLists(list) == [i \in 1..Len(list) |-> Characters(list[i])]

\* Python values handed to json.dump.
PyStr(s) == [type |-> "str", v |-> s]
PyList(l) == [type |-> "list", v |-> l]

\* json: a str is written between quotes with the quote, the backslash and
\* the newline escaped (ensure_ascii=False leaves every other character as
\* it is), and read back by undoing the escapes.
EscapeChar(ch) ==
    CASE ch = "\"" -> <<"\\", "\"">>
      [] ch = "\\" -> <<"\\", "\\">>
      [] ch = "\n" -> <<"\\", "n">>
      [] OTHER -> <<ch>>
RECURSIVE EscapeAll(_)
EscapeAll(s) == IF Len(s) = 0 THEN <<>> ELSE EscapeChar(Head(s)) \o EscapeAll(Tail(s))
dump_str(s) == <<"\"">> \o EscapeAll(s) \o <<"\"">>

RECURSIVE Unescape(_)
Unescape(body) ==
    IF Len(body) = 0
    THEN <<>>
    ELSE IF body[1] = "\\"
    THEN <<IF body[2] = "n" THEN "\n" ELSE body[2]>> \o Unescape(SubSeq(body, 3, Len(body)))
    ELSE <<body[1]>> \o Unescape(Tail(body))
load_str(text) == Unescape(SubSeq(text, 2, Len(text) - 1))

dump_value(value) ==
    IF value.type = "str"
    THEN [type |-> "string", text |-> dump_str(value.v)]
    ELSE [type |-> "array", text |-> [i \in 1..Len(value.v) |-> dump_str(value.v[i])]]
load_value(json) ==
    IF json.type = "string"
    THEN load_str(json.text)
    ELSE [i \in 1..Len(json.text) |-> load_str(json.text[i])]

\* json.dump(data, f, indent=2, ensure_ascii=False) of a list of dicts: the
\* array of objects, each the members in insertion order.
json_dump(data) ==
    [i \in 1..Len(data) |->
        [k \in 1..Len(data[i]) |-> <<data[i][k][1], dump_value(data[i][k][2])>>]]

\* json.load of an array of objects: the list of dicts.
json_load(document) ==
    [i \in 1..Len(document) |->
        LET members == document[i]
            keys == {members[k][1] : k \in 1..Len(members)}
        IN [key \in keys |->
               load_value(members[CHOOSE k \in 1..Len(members) : members[k][1] = key][2])]]

\* Faulty variant of conversation_dict: "answers" is given the questions.
conversation_dict_answers_lost(c) ==
    << <<"id", PyStr(c.id)>>,
       <<"doc", PyStr(c.doc)>>,
       <<"questions", PyList(c.questions)>>,
       <<"answers", PyList(c.questions)>>,
       <<"formatted_llm_response", PyList(c.formatted_llm_response)>> >>

\* The dict _save_conversations_to_json builds for one conversation.
conversation_dict(c) ==
    << <<"id", PyStr(c.id)>>,
       <<"doc", PyStr(c.doc)>>,
       <<"questions", PyList(c.questions)>>,
       <<"answers", PyList(c.answers)>>,
       <<"formatted_llm_response", PyList(c.formatted_llm_response)>> >>

\* Faulty variant of save_conversations_to_json: an empty list is written too.
save_conversations_unguarded(convs) ==
    [exc |-> "",
     file |-> json_dump([i \in 1..Len(convs) |-> conversation_dict(convs[i])])]

\* _save_conversations_to_json: ValueError for an empty list, before anything
\* is written; otherwise the file holds one dict per conversation, in order.
save_conversations_to_json(convs) ==
    IF Len(convs) = 0
    THEN [exc |-> "ValueError", file |-> NoFile]
    ELSE [exc |-> "",
          file |-> json_dump([i \in 1..Len(convs) |-> conversation_dict(convs[i])])]

Error(kind, by, id, cause, listed) ==
    [kind |-> kind, raised_by |-> by, id |-> id, cause |-> cause, listed |-> listed]

\* Faulty variant of on_exception: the exception is swallowed and the loop
\* goes on with the next conversation.
on_exception_swallowed(c, cause) ==
    [run_status |-> "responding", run_error |-> NoError, advance |-> 1]

\* except Exception as e: raise RuntimeError(f"Error processing conversation
\* {conv.id}: {e}") from e.  The loop does not advance.
on_exception(c, cause) ==
    [run_status |-> "failed",
     run_error |-> Error("RuntimeError", "get_all_responses", c.id, cause, <<>>),
     advance |-> 0]

\* What happened, for which conversation, how it ended, what it was given
\* and what it gave back.
PromptEvent(c, p) ==
    [ev |-> "prompt", id |-> c.id, outcome |-> "built", given |-> c.id, got |-> p]
RequestEvent(c, p, outcome, text) ==
    [ev |-> "request", id |-> c.id, outcome |-> outcome, given |-> p, got |-> text]
ExtractEvent(c, text, outcome, list) ==
    [ev |-> "extract", id |-> c.id, outcome |-> outcome, given |-> text, got |-> list]
SaveEvent ==
    [ev |-> "save", id |-> <<>>, outcome |-> "written", given |-> <<>>, got |-> <<>>]
ReportEvent ==
    [ev |-> "report", id |-> <<>>, outcome |-> "written", given |-> <<>>, got |-> <<>>]

\* Faulty variant of loop_is_over: the loop is left before its last turn.
loop_is_over_one_early(done, convs) == done >= Len(convs) - 1

\* for conv in self.all_convs: the loop ends when every conversation had
\* its turn.
loop_is_over(done, convs) == done = Len(convs)

\* GetAllLlmResponses.__init__: self.llm = OpenAiLlmResponse(model_name, ...)
CreateLlm ==
    /\ run_status = "start"
    /\ IF IsModelName(args.model_name)
       THEN /\ llm' = args.model_name
            /\ run_status' = "llm_ready"
            /\ UNCHANGED run_error
       ELSE /\ run_status' = "failed"
            /\ run_error' = Error("ValueError", "OpenAiLlmResponse", <<>>, "ValueError",
                                  ModelName)
            /\ UNCHANGED llm
    /\ UNCHANGED <<args, data_file, parser_data, all_convs, prompt_gen, prompt, processed,
                   events, responses_file, reloaded>>
    /\ UNCHANGED <<retry_vars, extract_vars, eval_vars>>

\* self.conv_parser = ConvFinQaDataParser(data_path): __init__ loads the file.
CreateParser ==
    /\ run_status = "llm_ready"
    /\ LET loaded == load_json(data_file)
       IN IF loaded.exc = ""
          THEN /\ parser_data' = loaded.value
               /\ run_status' = "parser_ready"
               /\ UNCHANGED run_error
          ELSE /\ run_status' = "failed"
               /\ run_error' = Error(loaded.exc, "ConvFinQaDataParser", <<>>, loaded.exc, <<>>)
               /\ UNCHANGED parser_data
    /\ UNCHANGED <<args, data_file, llm, all_convs, prompt_gen, prompt, processed, events,
                   responses_file, reloaded>>
    /\ UNCHANGED <<retry_vars, extract_vars, eval_vars>>

\* self.all_convs = self.conv_parser.get_all_docs_and_q_and_a_pairs(...)
LoadConversations ==
    /\ run_status = "parser_ready"
    /\ LET data_type == data_type_of(args.use_train_data)
           got == get_all_docs_and_q_and_a_pairs(parser_data, args.use_train_data)
       IN IF got.exc = ""
          THEN /\ all_convs' = got.value
               /\ run_status' = "convs_loaded"
               /\ UNCHANGED run_error
          ELSE /\ run_status' = "failed"
               /\ run_error' = Error(got.exc, "ConvQA", parser_data[data_type][got.at].id,
                                     got.exc, <<>>)
               /\ UNCHANGED all_convs
    /\ UNCHANGED <<args, data_file, llm, parser_data, prompt_gen, prompt, processed, events,
                   responses_file, reloaded>>
    /\ UNCHANGED <<retry_vars, extract_vars, eval_vars>>

\* self.prompt_gen = PromptGenerator(strategy=prompting_strategy)
CreatePromptGenerator ==
    /\ run_status = "convs_loaded"
    /\ IF IsStrategy(args.prompting_strategy)
       THEN /\ prompt_gen' = args.prompting_strategy
            /\ run_status' = "prompt_gen_ready"
            /\ UNCHANGED run_error
       ELSE /\ run_status' = "failed"
            /\ run_error' = Error("ValueError", "PromptGenerator", <<>>, "KeyError",
                                  STRATEGY_DICT)
            /\ UNCHANGED prompt_gen
    /\ UNCHANGED <<args, data_file, llm, parser_data, all_convs, prompt, processed, events,
                   responses_file, reloaded>>
    /\ UNCHANGED <<retry_vars, extract_vars, eval_vars>>

\* self.all_convs = random.sample(self.all_convs, sample_size); the
\* constructor returns and main calls get_all_responses.
SampleConversations ==
    /\ run_status = "prompt_gen_ready"
    /\ IF args.sample_size <= Len(all_convs)
       THEN /\ all_convs' \in sample(all_convs, args.sample_size)
            /\ run_status' = "responding"
            /\ UNCHANGED run_error
       ELSE /\ run_status' = "failed"
            /\ run_error' = Error("ValueError", "random.sample", <<>>, "ValueError", <<>>)
            /\ UNCHANGED all_convs
    /\ UNCHANGED <<args, data_file, llm, parser_data, prompt_gen, prompt, processed, events,
                   responses_file, reloaded>>
    /\ UNCHANGED <<retry_vars, extract_vars, eval_vars>>

\* Faulty variant of set_llm_response: the text is stored in every conversation
\* of the list.
set_llm_response_everywhere(convs, i, response) ==
    [k \in 1..Len(convs) |-> [convs[k] EXCEPT !.llm_response = response]]

\* conv.llm_response = response, conv being the i-th object of the list.
set_llm_response(convs, i, response) ==
    [convs EXCEPT ![i] = [convs[i] EXCEPT !.llm_response = response]]

\* conv.formatted_llm_response = self._extract_list_from_llm_response(response)
set_formatted_llm_response(convs, i, list) ==
    [convs EXCEPT ![i] = [convs[i] EXCEPT !.formatted_llm_response = list]]

\* One turn of the loop of get_all_responses: _get_conv_response for the
\* next conversation (prompt, get_response, conv.llm_response, the extractor,
\* conv.formatted_llm_response) inside try/except.
GetConvResponse ==
    /\ run_status = "responding"
    /\ processed < Len(all_convs)
    /\ LET c == all_convs[processed + 1]
           p == generate_prompt(prompt_gen, c)
       IN /\ prompt' = p
          /\ \/ \E text \in ResponseTexts :
                  LET r == extract_list_from_llm_response(text)
                      seen == <<PromptEvent(c, p), RequestEvent(c, p, "returned", text),
                                ExtractEvent(c, text, r.status, CharacterLists(r.value))>>
                      handled == on_exception(c, r.exc)
                  IN IF r.status = "returned"
                     THEN /\ all_convs' =
                                set_formatted_llm_response(
                                    set_llm_response(all_convs, processed + 1, text),
                                    processed + 1, CharacterLists(r.value))
                          /\ processed' = processed + 1
                          /\ events' = events \o seen
                          /\ UNCHANGED <<run_status, run_error>>
                     ELSE /\ all_convs' =
                                set_llm_response(all_convs, processed + 1, text)
                          /\ processed' = processed + handled.advance
                          /\ events' = events \o seen
                          /\ run_status' = handled.run_status
                          /\ run_error' = handled.run_error
             \/ \E kind \in GetResponseErrors :
                  LET handled == on_exception(c, kind)
                  IN /\ events' = events \o <<PromptEvent(c, p),
                                                RequestEvent(c, p, "raised", <<>>)>>
                     /\ processed' = processed + handled.advance
                     /\ run_status' = handled.run_status
                     /\ run_error' = handled.run_error
                     /\ UNCHANGED all_convs
    /\ UNCHANGED <<args, data_file, llm, parser_data, prompt_gen, responses_file, reloaded>>
    /\ UNCHANGED <<retry_vars, extract_vars, eval_vars>>

\* The loop is over: self._save_conversations_to_json(), and
\* get_all_responses returns all_convs.
SaveConversations ==
    /\ run_status = "responding"
    /\ loop_is_over(processed, all_convs)
    /\ LET saved == save_conversations_to_json(all_convs)
       IN IF saved.exc = ""
          THEN /\ responses_file' = saved.file
               /\ events' = Append(events, SaveEvent)
               /\ run_status' = "saved"
               /\ UNCHANGED run_error
          ELSE /\ run_status' = "failed"
               /\ run_error' = Error(saved.exc, "_save_conversations_to_json", <<>>,
                                     saved.exc, <<>>)
               /\ UNCHANGED <<responses_file, events>>
    /\ UNCHANGED <<args, data_file, llm, parser_data, all_convs, prompt_gen, prompt,
                   processed, reloaded>>
    /\ UNCHANGED <<retry_vars, extract_vars, eval_vars>>

\* evaluator = ConversationsEvaluator(all_convs=all_convs, ...)
CreateEvaluator ==
    /\ run_status = "saved"
    /\ ev_status = "idle"
    /\ ev_status' = "evaluating"
    /\ run_status' = "evaluating"
    /\ UNCHANGED <<conv, accuracy, accs, avg_accuracy, report>>
    /\ UNCHANGED <<args, data_file, llm, parser_data, all_convs, prompt_gen, prompt,
                   processed, events, responses_file, reloaded, run_error>>
    /\ UNCHANGED <<retry_vars, extract_vars>>

\* evaluate_all_conversations reaches the next conversation of all_convs.
EvaluateNextConversation ==
    /\ run_status = "evaluating"
    /\ ev_status = "evaluating"
    /\ Len(accs) < Len(all_convs)
    /\ conv' = all_convs[Len(accs) + 1]
    /\ accuracy' = evaluate_conversation(all_convs[Len(accs) + 1])
    /\ ev_status' = "returned"
    /\ UNCHANGED <<accs, avg_accuracy, report>>
    /\ UNCHANGED <<retry_vars, extract_vars, run_vars>>

\* Every conversation of all_convs is scored: the average, the report, and
\* main prints the accuracy.
FinishRunEvaluation ==
    /\ run_status = "evaluating"
    /\ ev_status = "evaluating"
    /\ Len(accs) = Len(all_convs)
    /\ avg_accuracy' = average(accs)
    /\ report' = <<average(accs)>>
    /\ events' = Append(events, ReportEvent)
    /\ ev_status' = "done"
    /\ run_status' = "finished"
    /\ UNCHANGED <<conv, accuracy, accs>>
    /\ UNCHANGED <<args, data_file, llm, parser_data, all_convs, prompt_gen, prompt,
                   processed, responses_file, reloaded, run_error>>
    /\ UNCHANGED <<retry_vars, extract_vars>>

InitRun ==
    /\ args \in MainArgs
    /\ data_file \in DataFiles
    /\ llm = "none"
    /\ parser_data = NoData
    /\ all_convs = <<>>
    /\ prompt_gen = "none"
    /\ prompt = NoPrompt
    /\ processed = 0
    /\ events = <<>>
    /\ responses_file = NoFile
    /\ reloaded = NoData
    /\ run_error = NoError
    /\ run_status = "start"
    /\ RetryIdle
    /\ ExtractIdle
    /\ EvalIdle

NextRun ==
    \/ CreateLlm
    \/ CreateParser
    \/ LoadConversations
    \/ CreatePromptGenerator
    \/ SampleConversations
    \/ GetConvResponse
    \/ SaveConversations
    \/ CreateEvaluator
    \/ EvaluateNextConversation
    \/ CollectAccuracy
    \/ FinishRunEvaluation

SpecRun == InitRun /\ [][NextRun]_vars

(***************************************************************************)
(* Claims about the run (checked under SpecRun).                           *)
(***************************************************************************)
\* A record whose questions and answers have the same, non-zero length.
WellFormed(c) == Len(c.questions) = Len(c.answers) /\ Len(c.questions) >= 1

\* C12: in every reachable state of a run, after loading and after every
\* later step, every conversation record (those of all_convs and the one the
\* evaluator is scoring) has a questions list and an answers list of the
\* same, non-zero length.
C12_QuestionsMatchAnswers ==
    /\ \A i \in 1..Len(all_convs) : WellFormed(all_convs[i])
    /\ ev_status = "returned" => WellFormed(conv)

\* Two records, the second with two questions and two answers, were loaded,
\* processed and saved.
C12_Witness ==
    /\ run_status = "saved"
    /\ Len(all_convs) = 2
    /\ Len(all_convs[2].questions) = 2
    /\ Len(all_convs[2].answers) = 2
    /\ all_convs[2].llm_response # NoneValue

Requests == {k \in 1..Len(events) : events[k].ev = "request"}

\* C13: if get_response fails for the conversation at position i, whatever
\* the exception, get_all_responses raises an error that carries that
\* conversation's id, no request is made for a later conversation (the
\* failed request is the last thing that happened, and it is request number
\* i), and the responses file is not written.
C13_FailedRequestEndsRun ==
    \A k \in 1..Len(events) :
        (events[k].ev = "request" /\ events[k].outcome = "raised") =>
            /\ k = Len(events)
            /\ run_status = "failed"
            /\ run_error.kind = "RuntimeError"
            /\ run_error.id = events[k].id
            /\ processed < Len(all_convs)
            /\ all_convs[processed + 1].id = events[k].id
            /\ Cardinality(Requests) = processed + 1
            /\ responses_file = NoFile

\* The request of the second of two conversations failed after the first
\* conversation had been processed.
C13_Witness ==
    /\ run_status = "failed"
    /\ Len(all_convs) = 2
    /\ processed = 1
    /\ all_convs[1].llm_response # NoneValue
    /\ events[Len(events)].ev = "request"
    /\ events[Len(events)].outcome = "raised"
    /\ events[Len(events)].id = all_convs[2].id
    /\ run_error.id = all_convs[2].id

\* A text from which no list of strings can be parsed: no bracket group, or
\* a last group that is not a literal list of strings.
Unparseable(text) ==
    \/ Groups(text) = {}
    \/ ~IsStringListLiteral(GroupText(text, LastGroup(text)))

\* C14: when the model's text for a conversation cannot be parsed into a
\* list of strings, the run does not fail on that conversation, its parsed
\* list is empty, the loop goes on past it, what is saved holds every
\* conversation, and the evaluator scores that conversation 0.
C14_UnparseableTextScoresZero ==
    \A i \in 1..Len(all_convs) :
        (all_convs[i].llm_response # NoneValue /\ Unparseable(all_convs[i].llm_response)) =>
            /\ ~(run_status = "failed" /\ run_error.id = all_convs[i].id)
            /\ all_convs[i].formatted_llm_response = <<>>
            /\ processed >= i
            /\ responses_file # NoFile => Len(responses_file) = Len(all_convs)
            /\ (ev_status = "returned" /\ conv = all_convs[i]) => accuracy = <<0, 1>>

\* Support for C14: its statement holds of every conversation on which the
\* extractor returned.
C14_HoldsWhenExtractorReturned ==
    \A i \in 1..Len(all_convs) :
        (/\ all_convs[i].llm_response # NoneValue
         /\ Unparseable(all_convs[i].llm_response)
         /\ extract_list_from_llm_response(all_convs[i].llm_response).status = "returned") =>
            /\ ~(run_status = "failed" /\ run_error.id = all_convs[i].id)
            /\ all_convs[i].formatted_llm_response = <<>>
            /\ processed >= i
            /\ (ev_status = "returned" /\ conv = all_convs[i]) => accuracy = <<0, 1>>
C14_UnparseableTextEndsRun ==
    /\ run_status = "failed"
    /\ run_error.kind = "RuntimeError"
    /\ run_error.cause = "TypeError"
    /\ all_convs[processed + 1].llm_response = <<"[", "{{5}}", "]">>
    /\ responses_file = NoFile

\* The constructors that run before PromptGenerator.
EarlierConstructors == {"OpenAiLlmResponse", "ConvFinQaDataParser", "ConvQA"}

\* C15: constructing the model client with a name outside the four model
\* names, or the prompt generator with a strategy outside the three
\* strategies, fails with a ValueError that lists the valid names, at
\* construction: no client or generator exists, no prompt has been built and
\* no request made.
C15_InvalidNameOrStrategyFailsConstruction ==
    /\ (/\ args.model_name \notin {"gpt-4.1", "gpt-4o", "gpt-4o-mini", "o4-mini"}
        /\ run_status # "start") =>
           /\ run_status = "failed"
           /\ run_error.kind = "ValueError"
           /\ run_error.raised_by = "OpenAiLlmResponse"
           /\ run_error.listed = <<"gpt-4.1", "gpt-4o", "gpt-4o-mini", "o4-mini">>
           /\ llm = "none"
           /\ events = <<>>
           /\ prompt = NoPrompt
    /\ (/\ args.prompting_strategy \notin {"basic", "chain_of_thought", "few_shot"}
        /\ run_status \notin {"start", "llm_ready", "parser_ready", "convs_loaded"}
        /\ run_error.raised_by \notin EarlierConstructors) =>
           /\ run_status = "failed"
           /\ run_error.kind = "ValueError"
           /\ run_error.raised_by = "PromptGenerator"
           /\ run_error.listed = <<"basic", "chain_of_thought", "few_shot">>
           /\ prompt_gen = "none"
           /\ events = <<>>
           /\ prompt = NoPrompt

\* The run was given the model name gpt-5 and ended in the constructor of
\* the model client.
C15_Witness ==
    /\ args.model_name = "gpt-5"
    /\ run_status = "failed"
    /\ run_error.raised_by = "OpenAiLlmResponse"
    /\ events = <<>>

\* get_all_responses has been called.
GetAllResponsesCalled ==
    \/ run_status \in {"responding", "saved", "evaluating", "finished"}
    \/ /\ run_status = "failed"
       /\ run_error.raised_by \in {"get_all_responses", "_save_conversations_to_json"}

\* C16: when the conversation list of the run is empty, get_all_responses
\* makes no request, ends with the ValueError of the save step, and writes
\* no file.
C16_EmptyListFailsAtSave ==
    (GetAllResponsesCalled /\ Len(all_convs) = 0) =>
        /\ events = <<>>
        /\ responses_file = NoFile
        /\ run_status \in {"responding", "failed"}
        /\ run_status = "failed" =>
              /\ run_error.kind = "ValueError"
              /\ run_error.raised_by = "_save_conversations_to_json"

\* A sample of size 0 of a split with an entry: the run ended at the save
\* step.
C16_Witness ==
    /\ run_status = "failed"
    /\ run_error.raised_by = "_save_conversations_to_json"
    /\ Len(all_convs) = 0
    /\ Len(parser_data.train) > 0
    /\ args.use_train_data
    /\ events = <<>>
    /\ responses_file = NoFile

\* The entries of the split the run selected, as the parser holds them.
SelectedSplit == parser_data[IF args.use_train_data THEN "train" ELSE "dev"]
Mismatched(entry) ==
    Len(entry.dialogue.conv_questions) # Len(entry.dialogue.conv_answers)
Empty(entry) ==
    Len(entry.dialogue.conv_questions) = 0 \/ Len(entry.dialogue.conv_answers) = 0

\* C18: if a record of the selected split has different numbers of questions
\* and answers, loading fails at the validation of a record (of the first
\* such record, with the ValueError that names it, unless the field
\* constraints reject an earlier record), get_all_docs_and_q_and_a_pairs
\* returns no list, and no prompt is built and no request made.
C18_MismatchedRecordFailsLoading ==
    LET bad == {i \in 1..Len(SelectedSplit) : Mismatched(SelectedSplit[i])}
        first == Least(bad)
    IN (bad # {} /\ run_status # "parser_ready") =>
          /\ run_status = "failed"
          /\ run_error.raised_by = "ConvQA"
          /\ IF \E j \in 1..first : Empty(SelectedSplit[j])
             THEN run_error.kind = "ValidationError"
             ELSE /\ run_error.kind = "ValueError"
                  /\ run_error.id = SelectedSplit[first].id
          /\ all_convs = <<>>
          /\ prompt_gen = "none"
          /\ prompt = NoPrompt
          /\ events = <<>>

\* The second entry of the train split has two questions and one answer, the
\* first is valid: loading ended with the ValueError naming the second.
C18_Witness ==
    /\ args.use_train_data
    /\ Len(parser_data.train) = 2
    /\ ~Mismatched(parser_data.train[1])
    /\ ~Empty(parser_data.train[1])
    /\ Mismatched(parser_data.train[2])
    /\ run_status = "failed"
    /\ run_error.kind = "ValueError"
    /\ run_error.id = <<"c", "2">>

\* C19: a loader constructed on a path that does not exist, on a file that
\* is not a .json file, or on content that does not decode as JSON fails at
\* load time (FileNotFoundError for the missing path, ValueError otherwise):
\* no loader holding data exists and no record was loaded.
C19_BadFileFailsAtLoad ==
    (/\ ~data_file.exists \/ ~data_file.json_suffix \/ ~data_file.decodes
     /\ llm # "none"
     /\ run_status # "llm_ready") =>
        /\ run_status = "failed"
        /\ run_error.raised_by = "ConvFinQaDataParser"
        /\ run_error.kind = IF data_file.exists THEN "ValueError" ELSE "FileNotFoundError"
        /\ parser_data = NoData
        /\ all_convs = <<>>
        /\ events = <<>>

\* The file holds a dataset but its name does not end in .json: the
\* constructor of the loader raised ValueError.
C19_Witness ==
    /\ data_file.exists
    /\ ~data_file.json_suffix
    /\ data_file.decodes
    /\ run_status = "failed"
    /\ run_error.raised_by = "ConvFinQaDataParser"
    /\ run_error.kind = "ValueError"
    /\ parser_data = NoData

(***************************************************************************)
(* 5. Saving the conversations and reading the file back.  The loop of     *)
(* get_all_responses is over for a list of conversations whose strings     *)
(* hold quotes, backslashes and newlines; _save_conversations_to_json      *)
(* writes the file and _load_json reads it.                                *)
(***************************************************************************)
RoundTripStrings == {<<"a">>, <<"\"", "a">>, <<"\\", "n">>, <<"a", "\n">>}

RoundTripConvs ==
    {[id |-> <<"c">> \o s,
      doc |-> t,
      questions |-> <<s, t>>,
      answers |-> <<t, s>>,
      llm_response |-> <<"x">>,
      formatted_llm_response |-> IF s = t THEN <<>> ELSE <<s>>] :
        s \in RoundTripStrings, t \in RoundTripStrings}

\* What the loop has logged when every conversation of convs went through.
RECURSIVE ProcessedEvents(_)
ProcessedEvents(convs) ==
    IF Len(convs) = 0
    THEN <<>>
    ELSE LET c == Head(convs)
             p == generate_prompt("basic", c)
         IN <<PromptEvent(c, p), RequestEvent(c, p, "returned", c.llm_response),
              ExtractEvent(c, c.llm_response, "returned", c.formatted_llm_response)>>
                \o ProcessedEvents(Tail(convs))

\* _load_json on the responses file (it exists and its name ends in .json):
\* json.load(file).
LoadResponses ==
    /\ run_status = "saved"
    /\ reloaded' = json_load(responses_file)
    /\ run_status' = "reloaded"
    /\ UNCHANGED <<args, data_file, llm, parser_data, all_convs, prompt_gen, prompt,
                   processed, events, responses_file, run_error>>
    /\ UNCHANGED <<retry_vars, extract_vars, eval_vars>>

InitRoundTrip ==
    /\ args = [model_name |-> "gpt-4.1", prompting_strategy |-> "basic",
               sample_size |-> 0, use_train_data |-> FALSE]
    /\ data_file = NoDataFile
    /\ llm = "gpt-4.1"
    /\ parser_data = NoData
    /\ all_convs \in SeqsUpTo(RoundTripConvs, MaxEntries)
    /\ prompt_gen = "basic"
    /\ prompt = IF Len(all_convs) = 0
                THEN NoPrompt
                ELSE generate_prompt("basic", all_convs[Len(all_convs)])
    /\ processed = Len(all_convs)
    /\ events = ProcessedEvents(all_convs)
    /\ responses_file = NoFile
    /\ reloaded = NoData
    /\ run_error = NoError
    /\ run_status = "responding"
    /\ RetryIdle
    /\ ExtractIdle
    /\ EvalIdle

NextRoundTrip ==
    \/ SaveConversations
    \/ LoadResponses

SpecRoundTrip == InitRoundTrip /\ [][NextRoundTrip]_vars

MaxQuestions == 3

PromptConversations ==
    {ConvQA(<<"c", "1">>, doc, questions, [i \in 1..Len(questions) |-> <<"a">>]).value :
        doc \in {<<"D">>, <<"D", "\n", "q">>},
        questions \in UNION {[1..n -> {<<"p">>, <<"q">>, <<"r", "?">>}] :
                                n \in 1..MaxQuestions}}

\* self.prompt_gen.generate_prompt(conv)
GeneratePrompt ==
    /\ run_status = "prompting"
    /\ prompt' = generate_prompt(prompt_gen, all_convs[1])
    /\ run_status' = "prompted"
    /\ UNCHANGED <<args, data_file, llm, parser_data, all_convs, prompt_gen, processed,
                   events, responses_file, reloaded, run_error>>
    /\ UNCHANGED <<retry_vars, extract_vars, eval_vars>>

InitPrompt ==
    /\ args = NoArgs
    /\ data_file = NoDataFile
    /\ llm = "none"
    /\ parser_data = NoData
    /\ all_convs \in {<<c>> : c \in PromptConversations}
    /\ prompt_gen \in Range(STRATEGY_DICT)
    /\ prompt = NoPrompt
    /\ processed = 0
    /\ events = <<>>
    /\ responses_file = NoFile
    /\ reloaded = NoData
    /\ run_error = NoError
    /\ run_status = "prompting"
    /\ RetryIdle
    /\ ExtractIdle
    /\ EvalIdle

NextPrompt == GeneratePrompt

SpecPrompt == InitPrompt /\ [][NextPrompt]_vars

\* part occurs in text at place k + 1.
OccursAt(text, part, k) ==
    /\ k + Len(part) <= Len(text)
    /\ SubSeq(text, k + 1, k + Len(part)) = part
Contains(text, part) == \E k \in 0..Len(text) : OccursAt(text, part, k)

\* The questions from the i-th on stand in text from place k + 1 on, each
\* followed by the token and the next question.
RECURSIVE QuestionsFrom(_, _, _, _)
QuestionsFrom(text, questions, i, k) ==
    /\ OccursAt(text, questions[i], k)
    /\ i < Len(questions) =>
          /\ OccursAt(text, <<" {next_question} ">>, k + Len(questions[i]))
          /\ QuestionsFrom(text, questions, i + 1, k + Len(questions[i]) + 1)

\* C20: for each of the strategies basic, chain_of_thought and few_shot and
\* every conversation, the prompt contains the text of the document and all
\* the questions in their order, joined by the {next_question} token; the
\* chain_of_thought prompt also contains "Step-by-step reasoning".
C20_PromptHoldsDocAndQuestions ==
    run_status = "prompted" =>
        /\ Contains(prompt, all_convs[1].doc)
        /\ \E k \in 0..Len(prompt) : QuestionsFrom(prompt, all_convs[1].questions, 1, k)
        /\ prompt_gen = "chain_of_thought" => Contains(prompt, <<"Step-by-step reasoning">>)

\* The chain_of_thought prompt of a conversation with three different
\* questions.
C20_Witness ==
    /\ run_status = "prompted"
    /\ prompt_gen = "chain_of_thought"
    /\ all_convs[1].questions = << <<"q">>, <<"r", "?">>, <<"p">> >>
    /\ all_convs[1].doc = <<"D", "\n", "q">>
    /\ Contains(prompt, <<"q", " {next_question} ", "r", "?", " {next_question} ", "p">>)

(***************************************************************************)
(* Claims about the order of a run and the loader (checked under SpecRun). *)
(***************************************************************************)
Happened(kind) == {k \in 1..Len(events) : events[k].ev = kind}
NoCallFailed == \A k \in 1..Len(events) : events[k].outcome # "raised"

\* C21: in a run where no call fails, what has happened so far is, for each
\* conversation in list order up to the one last processed, one prompt
\* build, then one request with the prompt just built, then one extraction
\* on the text the request returned, and nothing else in between; after
\* these at most one writing of the responses file, which comes only when
\* every conversation of the list is processed, and after that at most one
\* writing of the report.
C21_EventsInOrder ==
    NoCallFailed =>
        LET turns == Cardinality(Happened("extract"))
            rest == Len(events) - 3 * turns
        IN /\ turns = processed
           /\ turns <= Len(all_convs)
           /\ \A i \in 1..turns :
                 /\ events[3 * i - 2].ev = "prompt"
                 /\ events[3 * i - 2].id = all_convs[i].id
                 /\ events[3 * i - 1].ev = "request"
                 /\ events[3 * i - 1].id = all_convs[i].id
                 /\ events[3 * i - 1].given = events[3 * i - 2].got
                 /\ events[3 * i].ev = "extract"
                 /\ events[3 * i].id = all_convs[i].id
                 /\ events[3 * i].given = events[3 * i - 1].got
           /\ rest \in {0, 1, 2}
           /\ rest >= 1 =>
                 /\ events[3 * turns + 1].ev = "save"
                 /\ turns = Len(all_convs)
           /\ rest = 2 => events[3 * turns + 2].ev = "report"
           /\ responses_file # NoFile <=> rest >= 1
           /\ report # <<>> <=> rest = 2

\* A run of two conversations in which no call failed has ended: three
\* events for each conversation, then the responses file, then the report.
C21_Witness ==
    /\ run_status = "finished"
    /\ NoCallFailed
    /\ Len(all_convs) = 2
    /\ Len(events) = 8
    /\ events[4].ev = "prompt"
    /\ events[4].id = all_convs[2].id
    /\ events[7].ev = "save"
    /\ events[8].ev = "report"

\* The entries of the split the run did not select.
OtherSplit == parser_data[IF args.use_train_data THEN "dev" ELSE "train"]

\* The document of an entry as text: the string, or the dict as str() shows it.
DocumentText(entry) ==
    IF entry.doc.type = "str"
    THEN entry.doc.v
    ELSE <<"{", "'", "t", "'", ":", " ", "'", "D", "'", "}">>

\* get_all_docs_and_q_and_a_pairs has returned and all_convs is its result.
LoaderReturned == run_status \in {"convs_loaded", "prompt_gen_ready"}

\* C22: what get_all_docs_and_q_and_a_pairs returns holds exactly one record
\* for each entry of the selected split (train when load_train_data is true,
\* dev otherwise), in the order of the file, each with that entry's id,
\* document, questions and answers, the questions as many as the answers;
\* no record has the id of an entry of the other split.
C22_OneRecordPerSelectedEntry ==
    LoaderReturned =>
        /\ Len(all_convs) = Len(SelectedSplit)
        /\ \A i \in 1..Len(all_convs) :
              /\ all_convs[i].id = SelectedSplit[i].id
              /\ all_convs[i].doc = DocumentText(SelectedSplit[i])
              /\ all_convs[i].questions = SelectedSplit[i].dialogue.conv_questions
              /\ all_convs[i].answers = SelectedSplit[i].dialogue.conv_answers
              /\ Len(all_convs[i].questions) = Len(all_convs[i].answers)
              /\ \A j \in 1..Len(OtherSplit) : all_convs[i].id # OtherSplit[j].id

\* The dev split was selected and its one entry returned, while the train
\* split holds two entries.
C22_Witness ==
    /\ LoaderReturned
    /\ ~args.use_train_data
    /\ Len(parser_data.train) = 2
    /\ Len(parser_data.dev) = 1
    /\ Len(all_convs) = 1
    /\ all_convs[1].id = <<"d", "1">>
    /\ all_convs[1].doc = <<"{", "'", "t", "'", ":", " ", "'", "D", "'", "}">>

\* ---------------------------------------------------------------------------
\* C23. For every max_retries in 0..10 and every sequence of upstream outcomes
\* (content, empty payload, transient error, other error) an invocation of
\* get_response makes at most max_retries + 1 upstream calls and is over once
\* it has made that many; while it runs every call so far failed transiently
\* and the loop variable is inside its range. It ends in exactly one of two
\* ways: it returns the content of its last upstream call, which is the only
\* one whose outcome is content; or it raises the exception of its last
\* upstream call, a transient error only on the last attempt, the ValueError
\* for an empty payload, or any other error at once. The RuntimeError placed
\* after the loop is never raised.
LastCall == Calls[NumCalls]
C23_EndsByReturnOrRaiseWithinBudget ==
    /\ max_retries \in 0..MaxRetries
    /\ NumCalls <= max_retries + 1
    /\ gr_status \in {"running", "returned", "raised"}
    /\ \A k \in 1..NumCalls : Calls[k].arg = k - 1
    /\ gr_status = "running" =>
          /\ attempt \in 0..max_retries
          /\ NumCalls = attempt
          /\ gr_result = NoResult
          /\ \A k \in 1..NumCalls : Calls[k].outcome = "transient"
    /\ gr_status = "returned" =>
          /\ NumCalls >= 1
          /\ LastCall.outcome = "content"
          /\ \A k \in 1..(NumCalls - 1) : Calls[k].outcome = "transient"
          /\ gr_result.kind = "content"
          /\ gr_result.call = NumCalls
          /\ gr_result.value \in Contents
    /\ gr_status = "raised" =>
          /\ NumCalls >= 1
          /\ gr_result.kind # "RuntimeError"
          /\ gr_result.kind # "content"
          /\ gr_result.call = NumCalls
          /\ \A k \in 1..(NumCalls - 1) : Calls[k].outcome = "transient"
          /\ \/ /\ LastCall.outcome = "transient"
                /\ gr_result.kind \in {"RateLimitError", "APITimeoutError", "APIError"}
                /\ NumCalls = max_retries + 1
             \/ /\ LastCall.outcome = "none"
                /\ gr_result.kind = "ValueError"
             \/ /\ LastCall.outcome = "other"
                /\ gr_result.kind \notin
                      {"RateLimitError", "APITimeoutError", "APIError",
                       "ValueError", "RuntimeError", "content"}

\* An invocation with two retries allowed returns on its last permitted call,
\* after two transient failures.
C23_Witness ==
    /\ max_retries = 2
    /\ gr_status = "returned"
    /\ NumCalls = 3
    /\ gr_result.call = 3
    /\ Calls[1].outcome = "transient"
    /\ Calls[3].outcome = "content"

\* ---------------------------------------------------------------------------
\* C24. A call of _get_conv_response (a step that logs a prompt event for the
\* conversation it is given) leaves the list as long as it was, touches no
\* other conversation, and leaves id, doc, questions and answers of the given
\* conversation as they were. When get_response raised, the conversation is
\* wholly unchanged; when the call succeeded (get_response and the extractor
\* returned), llm_response is the text get_response returned and
\* formatted_llm_response is the extraction of that same text.
GivenIndex == processed + 1
CallOfGetConvResponse ==
    /\ Len(events') > Len(events)
    /\ events'[Len(events) + 1].ev = "prompt"
C24_OnlyResponseFieldsChange ==
    [][CallOfGetConvResponse =>
         LET given == all_convs[GivenIndex]
             after == all_convs'[GivenIndex]
             request == events'[Len(events) + 2]
         IN /\ GivenIndex \in 1..Len(all_convs)
            /\ events'[Len(events) + 1].id = given.id
            /\ Len(all_convs') = Len(all_convs)
            /\ \A k \in 1..Len(all_convs) :
                  k # GivenIndex => all_convs'[k] = all_convs[k]
            /\ after.id = given.id
            /\ after.doc = given.doc
            /\ after.questions = given.questions
            /\ after.answers = given.answers
            /\ request.outcome = "raised" =>
                  /\ after.llm_response = given.llm_response
                  /\ after.formatted_llm_response = given.formatted_llm_response
            /\ request.outcome = "returned" =>
                  LET r == extract_list_from_llm_response(request.got)
                  IN /\ after.llm_response = request.got
                     /\ r.status = "returned" =>
                           after.formatted_llm_response = CharacterLists(r.value)
       ]_vars

\* Two conversations were given in turn and both calls succeeded with different
\* texts: each holds its own text and the extraction of it.
C24_Witness ==
    /\ Len(all_convs) = 2
    /\ processed = 2
    /\ all_convs[1].llm_response = <<"x">>
    /\ all_convs[1].formatted_llm_response = <<>>
    /\ all_convs[2].llm_response = <<"[", "'a'", "]">>
    /\ Len(all_convs[2].formatted_llm_response) = 1
    /\ all_convs[2].id # all_convs[1].id
    /\ events[5].ev = "request"
    /\ events[5].got = all_convs[2].llm_response

Init == InitRetry
Next == NextRetry
Spec == Init /\ [][Next]_vars

====
